---- MODULE Spec2Model ----
(***************************************************************************)
(* SFA (Single File Assets): the container writer `encode` and the         *)
(* streaming reader `decode_from_reader` of src/src/lib.rs.                *)
(*                                                                         *)
(* Bytes are integers 0..255, byte strings are sequences of bytes. A Rust  *)
(* String is modelled by its UTF-8 bytes, so String::len is Len. Sizes     *)
(* (usize) are canonical sequences of decimal digits, which keeps the full *)
(* 64-bit range without 64-bit arithmetic. Faults of the operating system   *)
(* (a file that cannot be created, read or written) are left out. One      *)
(* behaviour is at most one encode call followed by at most one decode     *)
(* call on the same file, or a decode call alone.                          *)
(***************************************************************************)
EXTENDS Integers, Sequences, FiniteSets, TLC

VARIABLES
    pc,                 \* position of the program: which call runs and where
    input_files,        \* encode's sources: name and what the codec makes of it
    file,               \* bytes of the .sfa file on disk
    file_writer,        \* bytes held by encode's BufWriter
    x,                  \* number of sources encode has finished
    encode_result,      \* "none" | "Ok" | "SourceUnreadable"
    codec_accepts_empty,\* whether the PNG codec decodes a 0-byte buffer
    buffer,             \* decode: the whole input, read in one go
    consuming_iterator, \* decode: number of bytes of buffer consumed
    contents,           \* decode: accumulated text (UTF-8 bytes of the String)
    name,               \* decode: pending entry name
    size,               \* decode: pending entry length (decimal digits)
    cmode,              \* decode: "n" reading a name, "s" reading a size
    im_contents,        \* decode: payload bytes collected so far
    results,            \* decode: the mapping name -> image
    entries_read,       \* decode: history of the results.insert calls
    decode_result       \* "none" | "Ok" | an error kind | "Crash"

vars == <<pc, input_files, file, file_writer, x, encode_result,
          codec_accepts_empty, buffer, consuming_iterator, contents, name,
          size, cmode, im_contents, results, entries_read, decode_result>>

decVars == <<buffer, consuming_iterator, contents, name, size, cmode,
             im_contents, results, entries_read, decode_result>>

-----------------------------------------------------------------------------
(* Bounds of the model.                                                    *)

MaxMagicLen == 5        \* longest arbitrary input of the magic family
MaxTail == 4            \* longest arbitrary tail after a correct magic
MaxEntries == 3         \* most entries of a crafted container
MaxSources == 2         \* most sources handed to encode

-----------------------------------------------------------------------------
(* Bytes and text.                                                         *)

COLON == 58
MAGIC == <<83, 70, 65, 59>>                 \* b"SFA;"

AsChar_Raw(b) == <<b>>
\* `b as char` followed by String::push: the UTF-8 encoding of U+00bb.
AsChar(b) == IF b < 128 THEN <<b>> ELSE <<192 + (b \div 64), 128 + (b % 64)>>

DropLast_KeepsDelimiter(s) == s
\* &contents[0..contents.len() - 1]
DropLast(s) == SubSeq(s, 1, Len(s) - 1)

-----------------------------------------------------------------------------
(* usize as decimal digits.                                                *)

USIZE_MAX == <<1,8,4,4,6,7,4,4,0,7,3,7,0,9,5,5,1,6,1,5>>
ISIZE_MAX == <<9,2,2,3,3,7,2,0,3,6,8,5,4,7,7,5,8,0,7>>
\* Above this an allocation may or may not be granted by the system.
ALLOC_SURE == <<4,2,9,4,9,6,7,2,9,5>>

RECURSIVE StripZeros(_)
StripZeros(ds) ==
    IF Len(ds) > 1 /\ ds[1] = 0 THEN StripZeros(Tail(ds)) ELSE ds

RECURSIVE LexLess(_, _)
LexLess(a, b) ==
    IF a = <<>> THEN FALSE
    ELSE IF a[1] # b[1] THEN a[1] < b[1]
    ELSE LexLess(Tail(a), Tail(b))

\* a < b for canonical digit sequences
DecLess(a, b) ==
    \/ Len(a) < Len(b)
    \/ Len(a) = Len(b) /\ LexLess(a, b)

RECURSIVE DecOf(_)
DecOf(n) == IF n < 10 THEN <<n>> ELSE Append(DecOf(n \div 10), n % 10)

IsDigit(b) == b >= 48 /\ b <= 57

\* str::parse::<usize>: an optional '+', then one or more ASCII digits, the
\* value at most usize::MAX.
ParseUsize(text) ==
    LET digits == IF text # <<>> /\ text[1] = 43 THEN Tail(text) ELSE text
        val == StripZeros([i \in 1..Len(digits) |-> digits[i] - 48])
        ok == /\ digits # <<>>
              /\ \A i \in 1..Len(digits) : IsDigit(digits[i])
              /\ ~DecLess(USIZE_MAX, val)
    IN  [ok |-> ok, val |-> IF ok THEN val ELSE <<0>>]

FormatUsize_LastDigit(n) == <<48 + (n % 10)>>
\* format!("{}", n) for a usize
FormatUsize(n) == LET ds == DecOf(n) IN [i \in 1..Len(ds) |-> 48 + ds[i]]

-----------------------------------------------------------------------------
(* The external PNG codec, opaque: image im is the one whose canonical     *)
(* encoding is PngBytes(im). Image 0 exists only for a codec that encodes  *)
(* an image in 0 bytes.                                                    *)

PngBytes(im) ==
    CASE im = 0 -> <<>>
      [] im = 1 -> <<COLON>>
      [] im = 2 -> <<49, COLON>>
      [] im = 3 -> <<137, 80, 78, 71, 13, 10, 26, 10, COLON, 49, COLON>>

Images(acceptsEmpty) == IF acceptsEmpty THEN {0, 1, 2, 3} ELSE {1, 2, 3}

\* image::load_from_memory_with_format(bytes, Png): the image, or -1 (Err)
LoadFromMemory(bytes, acceptsEmpty) ==
    IF \E im \in Images(acceptsEmpty) : PngBytes(im) = bytes
    THEN CHOOSE im \in Images(acceptsEmpty) : PngBytes(im) = bytes
    ELSE -1

-----------------------------------------------------------------------------
(* io::BufWriter over the output file.                                     *)

BufCapacity == 8192

\* BufWriter::write_all(data) with buf buffered and f already on disk
BufWrite(buf, f, data) ==
    IF Len(buf) + Len(data) > BufCapacity
    THEN IF Len(data) >= BufCapacity
         THEN [buf |-> <<>>, file |-> f \o buf \o data]
         ELSE [buf |-> data, file |-> f \o buf]
    ELSE [buf |-> buf \o data, file |-> f]

BufFlush_Lost(buf, f) == f
\* BufWriter::flush, and the flush of BufWriter's drop on an early return
BufFlush(buf, f) == f \o buf

-----------------------------------------------------------------------------
(* encode (lib.rs 51-82). OS faults of the sink are not modelled.          *)

EntryHeader_EscapesColon(nm, len) ==
    [i \in 1..Len(nm) |-> IF nm[i] = COLON THEN 95 ELSE nm[i]]
        \o <<COLON>> \o FormatUsize(len) \o <<COLON>>
EntryHeader_NoSecondColon(nm, len) == nm \o <<COLON>> \o FormatUsize(len)
\* format!("{}:{}:", x, temprorary_buffer.len()).as_bytes()
EntryHeader(nm, len) == nm \o <<COLON>> \o FormatUsize(len) \o <<COLON>>

\* File::create, BufWriter::new, write_all(b"SFA;")
EncodeCreate ==
    /\ pc = "idle" /\ encode_result = "none" /\ decode_result = "none"
    /\ LET w == BufWrite(<<>>, <<>>, MAGIC)
       IN  /\ file_writer' = w.buf
           /\ file' = w.file
    /\ x' = 0
    /\ pc' = "encode"
    /\ UNCHANGED <<input_files, encode_result, codec_accepts_empty>>
    /\ UNCHANGED decVars

\* one iteration of `for x in input_files` that reaches its end
EncodeSource ==
    /\ pc = "encode" /\ x < Len(input_files)
    /\ input_files[x + 1].im # -1
    /\ LET src == input_files[x + 1]
           temprorary_buffer == PngBytes(src.im)
           w1 == BufWrite(file_writer, file,
                          EntryHeader(src.name, Len(temprorary_buffer)))
           w2 == BufWrite(w1.buf, w1.file, temprorary_buffer)
       IN  /\ file_writer' = w2.buf
           /\ file' = w2.file
    /\ x' = x + 1
    /\ UNCHANGED <<pc, input_files, encode_result, codec_accepts_empty>>
    /\ UNCHANGED decVars

\* image::open or write_to fails: `?` returns, dropping the BufWriter
EncodeSourceFail ==
    /\ pc = "encode" /\ x < Len(input_files)
    /\ input_files[x + 1].im = -1
    /\ file' = BufFlush(file_writer, file)
    /\ file_writer' = <<>>
    /\ encode_result' = "SourceUnreadable"
    /\ pc' = "idle"
    /\ UNCHANGED <<x, input_files, codec_accepts_empty>>
    /\ UNCHANGED decVars

\* file_writer.flush()?; Ok(())
EncodeFlush ==
    /\ pc = "encode" /\ x = Len(input_files)
    /\ file' = BufFlush(file_writer, file)
    /\ file_writer' = <<>>
    /\ encode_result' = "Ok"
    /\ pc' = "idle"
    /\ UNCHANGED <<x, input_files, codec_accepts_empty>>
    /\ UNCHANGED decVars

-----------------------------------------------------------------------------
(* decode / decode_from_reader (lib.rs 106-220).                           *)

Insert_KeepsFirst(map, k, v) ==
    IF k \in DOMAIN map THEN map
    ELSE [kk \in DOMAIN map \cup {k} |-> IF kk = k THEN v ELSE map[kk]]
\* results.insert(name, image) on a HashMap
Insert(map, k, v) ==
    [kk \in DOMAIN map \cup {k} |-> IF kk = k THEN v ELSE map[kk]]

Finish(outcome) == /\ decode_result' = outcome /\ pc' = "done"

MagicSeen_StartsWithSFA(c) == Len(c) >= 3 /\ SubSeq(c, 1, 3) = <<83, 70, 65>>
\* contents == "SFA;"
MagicSeen(c) == c = MAGIC
\* contents.len() >= 4
MagicOverrun(c) == Len(c) >= 4

\* reader.read_to_end(&mut buffer), the initialisations of lines 159-161
DecodeStart ==
    /\ pc = "idle" /\ decode_result = "none"
    /\ buffer' = file
    /\ consuming_iterator' = 0
    /\ contents' = <<>>
    /\ results' = <<>>
    /\ pc' = "magic"
    /\ UNCHANGED <<name, size, cmode, im_contents, entries_read, decode_result>>
    /\ UNCHANGED <<input_files, file, file_writer, x, encode_result,
                   codec_accepts_empty>>

\* 'parseloop_magic, the Some(b) arm
MagicByte ==
    /\ pc = "magic" /\ consuming_iterator < Len(buffer)
    /\ LET b == buffer[consuming_iterator + 1]
           c == contents \o AsChar(b)
       IN  /\ consuming_iterator' = consuming_iterator + 1
           /\ IF MagicSeen(c)
              THEN /\ contents' = <<>>     \* line 185
                   /\ name' = <<>>
                   /\ cmode' = "n"
                   /\ pc' = "loop"
                   /\ UNCHANGED decode_result
              ELSE /\ contents' = c
                   /\ UNCHANGED <<name, cmode>>
                   /\ IF MagicOverrun(c)
                      THEN Finish("InvalidMagic")
                      ELSE UNCHANGED <<pc, decode_result>>
    /\ UNCHANGED <<buffer, size, im_contents, results, entries_read>>
    /\ UNCHANGED <<input_files, file, file_writer, x, encode_result,
                   codec_accepts_empty>>

\* 'parseloop_magic, the None arm
MagicEOF ==
    /\ pc = "magic" /\ consuming_iterator = Len(buffer)
    /\ Finish("TruncatedMagic")
    /\ UNCHANGED <<buffer, consuming_iterator, contents, name, size, cmode,
                   im_contents, results, entries_read>>
    /\ UNCHANGED <<input_files, file, file_writer, x, encode_result,
                   codec_accepts_empty>>

\* Vec::with_capacity(size) aborts the process instead of returning
WithCapacityFails(n) == DecLess(ISIZE_MAX, n)
WithCapacityMayFail(n) == DecLess(ALLOC_SURE, n)

\* one iteration of `while let Some(b) = consuming_iterator.next()`, up to
\* the `for _ in 0..size` loop
ReadByte ==
    /\ pc = "loop" /\ consuming_iterator < Len(buffer)
    /\ LET b == buffer[consuming_iterator + 1]
           c == contents \o AsChar(b)
       IN  /\ consuming_iterator' = consuming_iterator + 1
           /\ IF b = COLON /\ cmode = "n"
              THEN /\ name' = DropLast(c)
                   /\ contents' = <<>>
                   /\ cmode' = "s"
                   /\ UNCHANGED <<pc, size, im_contents, decode_result>>
              ELSE IF b = COLON /\ cmode = "s"
              THEN LET p == ParseUsize(DropLast(c))
                   IN  IF ~p.ok
                       THEN /\ contents' = c
                            /\ Finish("InvalidLength")
                            /\ UNCHANGED <<name, size, cmode, im_contents>>
                       ELSE /\ size' = p.val
                            /\ contents' = <<>>
                            /\ cmode' = "n"
                            /\ im_contents' = <<>>
                            /\ UNCHANGED name
                            /\ \/ /\ ~WithCapacityFails(p.val)
                                  /\ pc' = "payload"
                                  /\ UNCHANGED decode_result
                               \/ /\ WithCapacityMayFail(p.val)
                                  /\ Finish("Crash")
              ELSE /\ contents' = c
                   /\ UNCHANGED <<pc, name, size, cmode, im_contents,
                                  decode_result>>
    /\ UNCHANGED <<buffer, results, entries_read>>
    /\ UNCHANGED <<input_files, file, file_writer, x, encode_result,
                   codec_accepts_empty>>

\* the while loop's None: Ok(results)
LoopEOF ==
    /\ pc = "loop" /\ consuming_iterator = Len(buffer)
    /\ Finish("Ok")
    /\ UNCHANGED <<buffer, consuming_iterator, contents, name, size, cmode,
                   im_contents, results, entries_read>>
    /\ UNCHANGED <<input_files, file, file_writer, x, encode_result,
                   codec_accepts_empty>>

PayloadWanted_Inclusive(got, n) == ~DecLess(n, DecOf(got))
PayloadWanted_OneShort(got, n) == DecLess(DecOf(got + 1), n)
\* `for _ in 0..size` has another iteration
PayloadWanted(got, n) == DecLess(DecOf(got), n)

\* an iteration of the payload loop, the Some(b) arm
PayloadByte ==
    /\ pc = "payload" /\ PayloadWanted(Len(im_contents), size)
    /\ consuming_iterator < Len(buffer)
    /\ im_contents' = Append(im_contents, buffer[consuming_iterator + 1])
    /\ consuming_iterator' = consuming_iterator + 1
    /\ UNCHANGED <<pc, buffer, contents, name, size, cmode, results,
                   entries_read, decode_result>>
    /\ UNCHANGED <<input_files, file, file_writer, x, encode_result,
                   codec_accepts_empty>>

\* an iteration of the payload loop, the None arm
PayloadEOF ==
    /\ pc = "payload" /\ PayloadWanted(Len(im_contents), size)
    /\ consuming_iterator = Len(buffer)
    /\ Finish("TruncatedPayload")
    /\ UNCHANGED <<buffer, consuming_iterator, contents, name, size, cmode,
                   im_contents, results, entries_read>>
    /\ UNCHANGED <<input_files, file, file_writer, x, encode_result,
                   codec_accepts_empty>>

\* after the payload loop: load_from_memory_with_format and results.insert
LoadImage ==
    /\ pc = "payload" /\ ~PayloadWanted(Len(im_contents), size)
    /\ LET im == LoadFromMemory(im_contents, codec_accepts_empty)
       IN  IF im = -1
           THEN /\ Finish("InvalidPayload")
                /\ UNCHANGED <<results, entries_read>>
           ELSE /\ results' = Insert(results, name, im)
                /\ entries_read' = Append(entries_read, <<name, im>>)
                /\ pc' = "loop"
                /\ UNCHANGED decode_result
    /\ UNCHANGED <<buffer, consuming_iterator, contents, name, size, cmode,
                   im_contents>>
    /\ UNCHANGED <<input_files, file, file_writer, x, encode_result,
                   codec_accepts_empty>>

-----------------------------------------------------------------------------
(* Initial states: the file a caller may hand to decode, and the sources a *)
(* caller may hand to encode.                                              *)

Seqs(S, n) == UNION {[1..k -> S] : k \in 0..n}

RECURSIVE Flatten(_)
Flatten(ss) == IF ss = <<>> THEN <<>> ELSE Head(ss) \o Flatten(Tail(ss))

\* 'S' 'F' 'A' ';' and a byte above the ASCII range
MagicBytes == {83, 70, 65, 59, 200}
MagicInputs == Seqs(MagicBytes, MaxMagicLen)

\* ':' '0' '1' '+' '-' 'a', and size fields around the limits of usize
TailChunks ==
    { <<COLON>>, <<48>>, <<49>>, <<43>>, <<45>>, <<97>>,
      FormatUsize(9) \o FormatUsize(223372036) \o FormatUsize(854775807),
      FormatUsize(18446744) \o FormatUsize(0) \o FormatUsize(73709551)
          \o FormatUsize(615) }
TailInputs == {MAGIC \o Flatten(cs) : cs \in Seqs(TailChunks, MaxTail)}

\* containers put together from whole entries, well-formed or not
CraftedEntries ==
    { nm \o <<COLON>> \o sz \o <<COLON>> \o pl :
        nm \in {<<97>>, <<98>>}, sz \in {<<49>>, <<50>>},
        pl \in {<<COLON>>, <<49, COLON>>} }
CraftedInputs == {MAGIC \o Flatten(es) : es \in Seqs(CraftedEntries, MaxEntries)}

\* "a", "b", "a:", "a:1::", and U+00E9 in UTF-8
SourceNames ==
    {<<97>>, <<98>>, <<97, COLON>>, <<97, COLON, 49, COLON, COLON>>, <<195, 169>>}
\* what image::open and write_to make of a source: an image, or -1 (Err)
Sources(acceptsEmpty) ==
    [name : SourceNames, im : Images(acceptsEmpty) \cup {-1}]

Init ==
    /\ pc = "idle"
    /\ \/ /\ file \in MagicInputs \cup CraftedInputs
          /\ codec_accepts_empty = FALSE
          /\ input_files = <<>>
       \/ /\ file \in TailInputs
          /\ codec_accepts_empty \in BOOLEAN
          /\ input_files = <<>>
       \/ /\ file = <<88>>
          /\ codec_accepts_empty \in BOOLEAN
          /\ input_files \in Seqs(Sources(codec_accepts_empty), MaxSources)
    /\ file_writer = <<>>
    /\ x = 0
    /\ encode_result = "none"
    /\ buffer = <<>>
    /\ consuming_iterator = 0
    /\ contents = <<>>
    /\ name = <<>>
    /\ size = <<0>>
    /\ cmode = "n"
    /\ im_contents = <<>>
    /\ results = <<>>
    /\ entries_read = <<>>
    /\ decode_result = "none"

Next ==
    \/ EncodeCreate
    \/ EncodeSource
    \/ EncodeSourceFail
    \/ EncodeFlush
    \/ DecodeStart
    \/ MagicByte
    \/ MagicEOF
    \/ ReadByte
    \/ LoopEOF
    \/ PayloadByte
    \/ PayloadEOF
    \/ LoadImage

Spec == Init /\ [][Next]_vars

-----------------------------------------------------------------------------
(* Properties.                                                             *)

Decoding == pc \in {"magic", "loop", "payload", "done"}
Returned == pc = "done"
HasMagicPrefix(b) == Len(b) >= 4 /\ SubSeq(b, 1, 4) = MAGIC

\* C3: an input whose first 4 bytes are not "SFA;" (it may be shorter, or
\* hold "SFA;" further on) never gets past the magic phase: the entry loop
\* is not entered, nothing is inserted, and the call ends in InvalidMagic
\* or TruncatedMagic.
C3_MagicEnforced ==
    (Decoding /\ ~HasMagicPrefix(buffer)) =>
        /\ pc \in {"magic", "done"}
        /\ results = <<>> /\ entries_read = <<>>
        /\ Returned => decode_result \in {"InvalidMagic", "TruncatedMagic"}
        /\ ~Returned => decode_result = "none"

\* an input with "SFA;" at offset 1 was refused
C3_Witness ==
    /\ Returned /\ decode_result = "InvalidMagic"
    /\ Len(buffer) >= 5 /\ SubSeq(buffer, 2, 5) = MAGIC

\* C4: an input of fewer than 4 bytes fails with TruncatedMagic, and
\* InvalidMagic is reported only once exactly 4 bytes have been consumed;
\* the magic phase is left for the entry loop after exactly 4 bytes too.
C4_MagicErrorKinds ==
    /\ (Returned /\ Len(buffer) < 4) => decode_result = "TruncatedMagic"
    /\ (Returned /\ decode_result = "InvalidMagic") => consuming_iterator = 4
    /\ (Returned /\ decode_result = "TruncatedMagic") => Len(buffer) < 4
    /\ (pc = "loop" /\ entries_read = <<>> /\ contents = <<>> /\ cmode = "n")
           => consuming_iterator >= 4

\* C2: success is returned only when the input ends in mode ReadingName
\* with nothing accumulated; an input that ends inside a name or a size
\* field does not return a mapping.
C2_CleanEndOnly ==
    (Returned /\ decode_result = "Ok") => (cmode = "n" /\ contents = <<>>)

\* bytes of the input not yet consumed
Remaining == Len(buffer) - consuming_iterator

\* C5: when an entry declares more payload bytes than the input still
\* holds after its second ':', the call returns the TruncatedPayload error.
C5_ShortPayloadIsTruncatedPayload ==
    (Returned /\ DecLess(DecOf(Len(im_contents) + Remaining), size))
        => decode_result = "TruncatedPayload"

DigitsOnly(t) == t # <<>> /\ \A i \in 1..Len(t) : IsDigit(t[i])
AtSizeDelimiter ==
    /\ pc = "loop" /\ cmode = "s"
    /\ consuming_iterator < Len(buffer)
    /\ buffer[consuming_iterator + 1] = COLON

\* C9: in mode ReadingSize, when the text before the ':' is not a non-empty
\* string of ASCII digits, the call fails with InvalidLength at that ':',
\* having taken no payload byte and inserted nothing.
C9_NonDigitsAreInvalidLength ==
    [][ (AtSizeDelimiter /\ ~DigitsOnly(contents)) =>
            /\ pc' = "done" /\ decode_result' = "InvalidLength"
            /\ consuming_iterator' = consuming_iterator + 1
            /\ im_contents' = im_contents /\ results' = results ]_vars

AllZeros(t) == t # <<>> /\ \A i \in 1..Len(t) : t[i] = 48

\* C10: an entry declaring length 0 takes no payload byte and hands a
\* 0-byte buffer to the codec, also when the input ends at its second ':';
\* it never ends in TruncatedPayload. If the codec rejects the empty buffer
\* the call ends in InvalidPayload, otherwise the entry is inserted and the
\* next byte is read in mode ReadingName with nothing accumulated.
C10_ZeroLengthEntry ==
    /\ [][ (AtSizeDelimiter /\ AllZeros(contents)) =>
              (pc' = "payload" /\ size' = <<0>> /\ im_contents' = <<>>) ]_vars
    /\ [][ (pc = "payload" /\ size = <<0>>) =>
              /\ im_contents = <<>>
              /\ consuming_iterator' = consuming_iterator
              /\ IF LoadFromMemory(<<>>, codec_accepts_empty) = -1
                 THEN /\ pc' = "done" /\ decode_result' = "InvalidPayload"
                      /\ results' = results
                 ELSE /\ pc' = "loop" /\ decode_result' = "none"
                      /\ cmode' = "n" /\ contents' = <<>>
                      /\ name \in DOMAIN results'
                      /\ results'[name] =
                             LoadFromMemory(<<>>, codec_accepts_empty) ]_vars
    /\ []((Returned /\ decode_result = "TruncatedPayload") => size # <<0>>)

\* a 0-byte entry was inserted although the input ended at its second ':'
C10_Witness ==
    /\ pc = "loop" /\ size = <<0>> /\ im_contents = <<>>
    /\ Remaining = 0 /\ buffer[Len(buffer)] = COLON
    /\ entries_read # <<>>
    /\ entries_read[Len(entries_read)] = <<name, 0>>
    /\ results[name] = 0

\* the decimal text of a length below 100
Decimal2(n) == IF n < 10 THEN <<48 + n>> ELSE <<48 + (n \div 10), 48 + (n % 10)>>

RECURSIVE ExpectedEntries(_)
ExpectedEntries(srcs) ==
    IF srcs = <<>> THEN <<>>
    ELSE LET payload == PngBytes(Head(srcs).im)
         IN  Head(srcs).name \o <<COLON>> \o Decimal2(Len(payload)) \o <<COLON>>
                 \o payload \o ExpectedEntries(Tail(srcs))

\* C7: after a successful encode the file is "SFA;" followed, per source in
\* input order, by name, ':', the decimal count of the payload's bytes, ':'
\* and the payload, with nothing between, after, or left in the writer.
C7_WriterFormat ==
    encode_result = "Ok" =>
        /\ file = MAGIC \o ExpectedEntries(input_files)
        /\ file_writer = <<>>

\* two sources were written, one with a two-digit length
C7_Witness ==
    /\ encode_result = "Ok" /\ Len(input_files) = 2
    /\ Len(PngBytes(input_files[1].im)) >= 10
    /\ Len(PngBytes(input_files[2].im)) < 10

\* C8: encode of no sources succeeds and leaves exactly "SFA;"; decoding
\* that file succeeds with an empty mapping.
C8_EmptyContainer ==
    input_files = <<>> =>
        /\ encode_result \in {"none", "Ok"}
        /\ encode_result = "Ok" => file = MAGIC
        /\ (Returned /\ encode_result = "Ok") =>
               (decode_result = "Ok" /\ results = <<>> /\ buffer = MAGIC)

\* the empty container was written and decoded
C8_Witness ==
    /\ input_files = <<>> /\ encode_result = "Ok"
    /\ Returned /\ decode_result = "Ok" /\ DOMAIN results = {}

SourceNameSet == {input_files[i].name : i \in 1..Len(input_files)}
LastWith(nm) ==
    CHOOSE i \in 1..Len(input_files) :
        /\ input_files[i].name = nm
        /\ \A j \in (i + 1)..Len(input_files) : input_files[j].name # nm
PlainName(nm) == \A i \in 1..Len(nm) : nm[i] < 128 /\ nm[i] # COLON
RoundTripped == Returned /\ encode_result = "Ok"

EntryNamesRead == {entries_read[i][1] : i \in 1..Len(entries_read)}
LastRead(nm) ==
    CHOOSE i \in 1..Len(entries_read) :
        /\ entries_read[i][1] = nm
        /\ \A j \in (i + 1)..Len(entries_read) : entries_read[j][1] # nm

\* C6: the mapping has exactly one key per entry name read, and its value is
\* the image of the entry of that name that comes last in the input, however
\* many entries carry the name; other names keep their own last entry.
C6_LastWins ==
    Decoding =>
        /\ DOMAIN results = EntryNamesRead
        /\ \A nm \in EntryNamesRead : results[nm] = entries_read[LastRead(nm)][2]

\* a returned mapping where a later entry replaced an earlier one of the
\* same name and a different image, beside an entry of another name
C6_Witness ==
    /\ Returned /\ decode_result = "Ok" /\ Len(entries_read) = 3
    /\ entries_read[1][1] = entries_read[3][1]
    /\ entries_read[1][2] # entries_read[3][2]
    /\ entries_read[2][1] # entries_read[1][1]
    /\ results[entries_read[1][1]] = entries_read[3][2]
    /\ results[entries_read[2][1]] = entries_read[2][2]

\* C11: while a payload of declared length n is read, every input byte,
\* whatever its value, is appended to the payload and nothing else changes:
\* the mode stays ReadingName with nothing accumulated. The payload loop is
\* left with exactly n bytes, the bytes that follow the second ':' in the
\* input, and the byte after them is the next one read.
C11_PayloadBinarySafe ==
    /\ [](pc = "payload" =>
            /\ cmode = "n" /\ contents = <<>>
            /\ ~DecLess(size, DecOf(Len(im_contents)))
            /\ consuming_iterator > Len(im_contents)
            /\ buffer[consuming_iterator - Len(im_contents)] = COLON
            /\ im_contents = SubSeq(buffer,
                                    consuming_iterator - Len(im_contents) + 1,
                                    consuming_iterator))
    /\ [][ (pc = "payload" /\ DecLess(DecOf(Len(im_contents)), size)
                            /\ Remaining > 0) =>
              /\ pc' = "payload"
              /\ im_contents' = Append(im_contents, buffer[consuming_iterator + 1])
              /\ consuming_iterator' = consuming_iterator + 1
              /\ UNCHANGED <<cmode, contents, name, size, results>> ]_vars
    /\ [][ (pc = "payload" /\ pc' # "payload"
                            /\ decode_result' # "TruncatedPayload") =>
              /\ DecOf(Len(im_contents)) = size
              /\ consuming_iterator' = consuming_iterator
              /\ cmode' = "n" /\ contents' = <<>> ]_vars

\* a payload of two bytes holding ':' was inserted and more input follows,
\* to be read in mode ReadingName from an empty buffer
C11_Witness ==
    /\ pc = "loop" /\ cmode = "n" /\ contents = <<>>
    /\ entries_read # <<>>
    /\ Len(im_contents) >= 2
    /\ \E i \in 1..Len(im_contents) : im_contents[i] = COLON
    /\ im_contents = PngBytes(entries_read[Len(entries_read)][2])
    /\ Remaining > 0

EncodeFailed == encode_result = "SourceUnreadable"
Written == SubSeq(input_files, 1, x)

\* C12: from the creation of the sink on, its previous contents are gone:
\* disk and writer together hold "SFA;" and the entries of the sources done.
\* When the source at index x fails, encode returns an error and the file
\* is exactly "SFA;" followed by the complete entries of the sources before
\* it, in order, with no byte of the failed source; with x = 0 it is "SFA;".
C12_NoRollback ==
    /\ pc = "encode" =>
           file \o file_writer = MAGIC \o ExpectedEntries(Written)
    /\ EncodeFailed =>
           /\ x < Len(input_files) /\ input_files[x + 1].im = -1
           /\ \A i \in 1..x : input_files[i].im # -1
           /\ file = MAGIC \o ExpectedEntries(Written)
           /\ file_writer = <<>>

\* encode failed on its second source and left the first one's entry
C12_Witness ==
    /\ EncodeFailed /\ pc = "idle" /\ x = 1
    /\ Len(file) > Len(MAGIC) /\ HasMagicPrefix(file)

HasColon(nm) == \E i \in 1..Len(nm) : nm[i] = COLON
EntryOffset(i) == Len(MAGIC) + Len(ExpectedEntries(SubSeq(input_files, 1, i - 1)))

WrittenNames == {input_files[i].name : i \in 1..x}
LastWritten(nm) ==
    CHOOSE i \in 1..x :
        /\ input_files[i].name = nm
        /\ \A j \in (i + 1)..x : input_files[j].name # nm
DecodedAfterFailedEncode == EncodeFailed /\ Returned

RECURSIVE CodePoints(_)
CodePoints(k) ==
    IF k = <<>> THEN <<>>
    ELSE IF k[1] < 128 THEN <<k[1]>> \o CodePoints(Tail(k))
    ELSE IF Len(k) >= 2
         THEN <<(k[1] - 192) * 64 + (k[2] - 128)>> \o CodePoints(Tail(Tail(k)))
         ELSE <<-1>>
IsAscii(nm) == \A i \in 1..Len(nm) : nm[i] < 128

DecodeStep ==
    \/ MagicByte \/ MagicEOF \/ ReadByte \/ LoopEOF
    \/ PayloadByte \/ PayloadEOF \/ LoadImage
DecodeRunning == pc \in {"magic", "loop", "payload"}
\* what is left to do: two per unread byte, one for a payload to load
Measure == 2 * Remaining + (IF pc = "payload" THEN 1 ELSE 0)

\* the reader only moves forward, a byte at a time; a byte read goes to the
\* accumulated text, ends a field, or goes to the payload; the accumulated
\* text is the bytes just read; every step brings the end nearer and the
\* call is never stuck before its end.
C14_ForwardConsumption ==
    /\ [](DecodeRunning =>
            /\ consuming_iterator <= Len(buffer)
            /\ ENABLED DecodeStep
            /\ LET k == Len(CodePoints(contents))
               IN  /\ k <= consuming_iterator
                   /\ CodePoints(contents) =
                          SubSeq(buffer, consuming_iterator - k + 1,
                                 consuming_iterator))
    /\ [][ DecodeRunning =>
              /\ consuming_iterator' \in
                     {consuming_iterator, consuming_iterator + 1}
              /\ buffer' = buffer
              /\ pc' = "done" \/ Measure' < Measure
              /\ consuming_iterator' = consuming_iterator + 1 =>
                     LET b == buffer[consuming_iterator + 1]
                     IN  IF pc = "payload"
                         THEN /\ im_contents' = Append(im_contents, b)
                              /\ contents' = contents
                         ELSE /\ im_contents' = im_contents \/ im_contents' = <<>>
                              /\ \/ CodePoints(contents') =
                                        Append(CodePoints(contents), b)
                                 \/ /\ contents' = <<>>
                                    /\ b = COLON \/ pc = "magic" ]_vars

\* C14: decode_from_reader ends on every input, in success or in one of
\* its errors, and reads the input strictly forward, each byte once.
C14_TerminatesForward ==
    /\ C14_ForwardConsumption
    /\ [](Returned =>
            decode_result \in {"Ok", "TruncatedMagic", "InvalidMagic",
                               "InvalidLength", "TruncatedPayload",
                               "InvalidPayload"})

====
